---- MODULE Spec2Model ----
(***************************************************************************)
(* Model of MediaMetadataUpdater/MediaMetadataUpdater.py: the file-name    *)
(* classification cascade, the quarantine moves, the per-file worker       *)
(* (process_file) and the driver (main) that enumerates the folders,       *)
(* dispatches the files to a process pool and folds the results into the   *)
(* three logs and the summary counters.                                    *)
(***************************************************************************)
EXTENDS Integers, Sequences, FiniteSets, TLC

(***************************************************************************)
(* Characters and strings.  File names are strings; At(s, i) is the i-th   *)
(* character of s, or "" outside the string.                               *)
(***************************************************************************)
At(s, i) == IF i >= 1 /\ i <= Len(s) THEN SubSeq(s, i, i) ELSE ""

\* the slice s[a..b], or "" when it does not lie inside s
Sub(s, a, b) == IF a >= 1 /\ a <= b /\ b <= Len(s) THEN SubSeq(s, a, b) ELSE ""

DigitSeq == <<"0", "1", "2", "3", "4", "5", "6", "7", "8", "9">>

Digits == {DigitSeq[k] : k \in 1..10}

DigitVal(c) == (CHOOSE k \in 1..10 : DigitSeq[k] = c) - 1

Letters ==
  {"a", "b", "c", "d", "e", "f", "g", "h", "i", "j", "k", "l", "m",
   "n", "o", "p", "q", "r", "s", "t", "u", "v", "w", "x", "y", "z",
   "A", "B", "C", "D", "E", "F", "G", "H", "I", "J", "K", "L", "M",
   "N", "O", "P", "Q", "R", "S", "T", "U", "V", "W", "X", "Y", "Z"}

\* the class [_A-Za-z0-9\+\-] of the two ISO patterns
SuffixChars == Letters \cup Digits \cup {"_", "+", "-"}

\* the class \s (its ASCII members; \d likewise is modelled by the ASCII digits)
Whitespace == {" ", "\t", "\n", "\r", "\f"}

AllDigits(s, a, b) == \A k \in a..b : At(s, k) \in Digits

AllIn(s, a, b, class) == \A k \in a..b : At(s, k) \in class

\* the class . (anything but a newline)
NoNewline(s, a, b) == \A k \in a..b : At(s, k) /= "\n"

RECURSIVE ToInt(_, _, _)
\* int() of the digits s[a..b]
ToInt(s, a, b) ==
  IF a > b THEN 0 ELSE ToInt(s, a, b - 1) * 10 + DigitVal(At(s, b))

RECURSIVE ToStr(_)
\* str() of a natural number
ToStr(n) ==
  IF n < 10 THEN DigitSeq[n + 1] ELSE ToStr(n \div 10) \o DigitSeq[(n % 10) + 1]

\* the operator "needle in hay" on strings
Contains(hay, needle) ==
  \E i \in 1..(Len(hay) - Len(needle) + 1) :
    Sub(hay, i, i + Len(needle) - 1) = needle

SetMax(S) == CHOOSE m \in S : \A k \in S : k <= m

(***************************************************************************)
(* The five patterns (re.match: anchored at the start of the name).        *)
(***************************************************************************)
\* \d{4}-\d{2}-\d{2}T\d{6}(?:\.\d{3})?Z at position p: its length, or 0
TsShape(s, p) ==
  LET base == /\ AllDigits(s, p, p + 3) /\ At(s, p + 4) = "-"
              /\ AllDigits(s, p + 5, p + 6) /\ At(s, p + 7) = "-"
              /\ AllDigits(s, p + 8, p + 9) /\ At(s, p + 10) = "T"
              /\ AllDigits(s, p + 11, p + 16)
  IN  IF base /\ At(s, p + 17) = "Z" THEN 18
      ELSE IF base /\ At(s, p + 17) = "." /\ AllDigits(s, p + 18, p + 20)
                   /\ At(s, p + 21) = "Z" THEN 22
      ELSE 0

\* \.(.+)$ at position d ($ also matches before one final newline)
DotExt(s, d) ==
  /\ At(s, d) = "."
  /\ \E e \in {Len(s) - 1, Len(s)} :
       /\ e >= d + 1
       /\ NoNewline(s, d + 1, e)
       /\ (e = Len(s) \/ At(s, Len(s)) = "\n")

\* (?:[_A-Za-z0-9\+\-]+)?(?:\s*\(\d+\))?\.(.+)$ at position q
TailMatches(s, q) ==
  \E a \in q..(Len(s) + 1) :
    /\ AllIn(s, q, a - 1, SuffixChars)
    /\ \/ DotExt(s, a)
       \/ \E b \in a..Len(s) :
            /\ AllIn(s, a, b - 1, Whitespace)
            /\ At(s, b) = "("
            /\ \E c \in (b + 2)..Len(s) :
                 /\ AllDigits(s, b + 1, c - 1)
                 /\ At(s, c) = ")"
                 /\ DotExt(s, c + 1)

\* the start positions of the separator for which ^(.*)<sep>(<ts>)<tail>$ matches
IsoPositions(s, sep) ==
  {i \in 1..Len(s) :
     /\ NoNewline(s, 1, i - 1)
     /\ Sub(s, i, i + Len(sep) - 1) = sep
     /\ TsShape(s, i + Len(sep)) > 0
     /\ TailMatches(s, i + Len(sep) + TsShape(s, i + Len(sep)))}

\* group(2) of an ISO pattern: the greedy (.*) takes the last position that matches
IsoGroup2(s, sep) ==
  LET i == SetMax(IsoPositions(s, sep))
      p == i + Len(sep)
  IN  Sub(s, p, p + TsShape(s, p) - 1)

pattern_iso_eq(s) == IsoPositions(s, "=_=") /= {}

pattern_iso_us(s) == IsoPositions(s, "__") /= {}

\* ^(\d{4}-\d{2}-\d{2} \d{2}\.\d{2}\.\d{2}).*
pattern_alt(s) ==
  /\ AllDigits(s, 1, 4) /\ At(s, 5) = "-"
  /\ AllDigits(s, 6, 7) /\ At(s, 8) = "-"
  /\ AllDigits(s, 9, 10) /\ At(s, 11) = " "
  /\ AllDigits(s, 12, 13) /\ At(s, 14) = "."
  /\ AllDigits(s, 15, 16) /\ At(s, 17) = "."
  /\ AllDigits(s, 18, 19)

\* ^(\d{2})(\d{2})(\d{2})\s+.*
pattern_fb_space(s) == AllDigits(s, 1, 6) /\ At(s, 7) \in Whitespace

\* ^(\d{2})(\d{2})(\d{2})-.*
pattern_fb_dash(s) == AllDigits(s, 1, 6) /\ At(s, 7) = "-"

(***************************************************************************)
(* datetime: construction and strptime.  A parse result is a record with   *)
(* ok = FALSE (ValueError) or ok = TRUE and the datetime dt.               *)
(***************************************************************************)
NoDate == [year |-> 0, month |-> 0, day |-> 0, hour |-> 0, minute |-> 0,
           second |-> 0, microsecond |-> 0]

IsLeap(y) == (y % 4 = 0 /\ y % 100 /= 0) \/ y % 400 = 0

DaysInMonth(y, m) ==
  IF m = 2 THEN (IF IsLeap(y) THEN 29 ELSE 28)
  ELSE IF m \in {4, 6, 9, 11} THEN 30 ELSE 31

\* datetime(y, m, d, hh, mi, ss, us): raises ValueError outside the ranges
Datetime(y, m, d, hh, mi, ss, us) ==
  IF /\ y >= 1 /\ y <= 9999
     /\ m >= 1 /\ m <= 12
     /\ d >= 1 /\ d <= DaysInMonth(y, m)
     /\ hh >= 0 /\ hh <= 23
     /\ mi >= 0 /\ mi <= 59
     /\ ss >= 0 /\ ss <= 59
  THEN [ok |-> TRUE,
        dt |-> [year |-> y, month |-> m, day |-> d, hour |-> hh,
                minute |-> mi, second |-> ss, microsecond |-> us]]
  ELSE [ok |-> FALSE, dt |-> NoDate]

\* the fields a strptime directive accepts when it is given two digits:
\* %m 01..12, %d 01..31, %H 00..23, %M 00..59, %S 00..61
DirectiveRanges(mo, d, hh, mi, ss) ==
  /\ mo >= 1 /\ mo <= 12
  /\ d >= 1 /\ d <= 31
  /\ hh <= 23
  /\ mi <= 59
  /\ ss <= 61

\* datetime.strptime(ts, "%Y-%m-%dT%H%M%S.%fZ") when frac,
\* datetime.strptime(ts, "%Y-%m-%dT%H%M%SZ") otherwise
StrptimeIso(ts, frac) ==
  LET y  == ToInt(ts, 1, 4)
      mo == ToInt(ts, 6, 7)
      d  == ToInt(ts, 9, 10)
      hh == ToInt(ts, 12, 13)
      mi == ToInt(ts, 14, 15)
      ss == ToInt(ts, 16, 17)
      us == IF frac THEN ToInt(ts, 19, 21) * 1000 ELSE 0
  IN  IF /\ TsShape(ts, 1) = Len(ts)
         /\ Len(ts) = (IF frac THEN 22 ELSE 18)
         /\ DirectiveRanges(mo, d, hh, mi, ss)
      THEN Datetime(y, mo, d, hh, mi, ss, us)
      ELSE [ok |-> FALSE, dt |-> NoDate]

\* datetime.strptime(ts, "%Y-%m-%d %H.%M.%S")
StrptimeAlt(ts) ==
  LET y  == ToInt(ts, 1, 4)
      mo == ToInt(ts, 6, 7)
      d  == ToInt(ts, 9, 10)
      hh == ToInt(ts, 12, 13)
      mi == ToInt(ts, 15, 16)
      ss == ToInt(ts, 18, 19)
  IN  IF pattern_alt(ts) /\ Len(ts) = 19 /\ DirectiveRanges(mo, d, hh, mi, ss)
      THEN Datetime(y, mo, d, hh, mi, ss, 0)
      ELSE [ok |-> FALSE, dt |-> NoDate]

\* the try/except pair of the ISO branches: milliseconds first, then without
ParseIso(ts) ==
  IF StrptimeIso(ts, TRUE).ok THEN StrptimeIso(ts, TRUE)
  ELSE StrptimeIso(ts, FALSE)

\* a two-digit year read with a pivot: 70..99 in the 1900s
ParseFallbackWindowed(s) ==
  Datetime((IF ToInt(s, 1, 2) >= 70 THEN 1900 ELSE 2000) + ToInt(s, 1, 2),
           ToInt(s, 3, 4), ToInt(s, 5, 6), 0, 0, 0, 0)

\* the body of a fallback branch: year = int("20" + yy), midnight
ParseFallback(s) ==
  Datetime(ToInt("20" \o Sub(s, 1, 2), 1, 4), ToInt(s, 3, 4), ToInt(s, 5, 6),
           0, 0, 0, 0)

\* timestamp_str of a fallback branch: f"{year}-{mm}-{dd}"
FallbackLabel(s) ==
  ToStr(ToInt("20" \o Sub(s, 1, 2), 1, 4)) \o "-" \o Sub(s, 3, 4)
    \o "-" \o Sub(s, 5, 6)

(***************************************************************************)
(* The cascade of process_file.  The result records the matcher that       *)
(* committed ("None" when no pattern matched), the patterns that were      *)
(* evaluated (tried), the parse result and the failure reason.             *)
(***************************************************************************)
MatcherOrder == <<"ISO1", "ISO2", "ALT", "Fallback1", "Fallback2">>

Branch(matcher, n, parsed, label, errText) ==
  [matcher |-> matcher,
   tried   |-> SubSeq(MatcherOrder, 1, n),
   ok      |-> parsed.ok,
   dt      |-> parsed.dt,
   timestamp_str |-> IF parsed.ok THEN label ELSE "",
   reason  |-> IF parsed.ok THEN "" ELSE errText]

\* a cascade that falls through to the next pattern when the timestamp of a
\* structural match does not parse
ClassifyFallthrough(fname) ==
  IF pattern_iso_eq(fname) /\ ParseIso(IsoGroup2(fname, "=_=")).ok
  THEN Branch("ISO1", 1, ParseIso(IsoGroup2(fname, "=_=")),
              IsoGroup2(fname, "=_="), "ISO1 timestamp parse error")
  ELSE IF pattern_iso_us(fname) /\ ParseIso(IsoGroup2(fname, "__")).ok
  THEN Branch("ISO2", 2, ParseIso(IsoGroup2(fname, "__")),
              IsoGroup2(fname, "__"), "ISO2 timestamp parse error")
  ELSE IF pattern_alt(fname) /\ StrptimeAlt(Sub(fname, 1, 19)).ok
  THEN Branch("ALT", 3, StrptimeAlt(Sub(fname, 1, 19)),
              Sub(fname, 1, 19), "ALT timestamp parse error")
  ELSE IF pattern_fb_space(fname) /\ ParseFallback(fname).ok
  THEN Branch("Fallback1", 4, ParseFallback(fname), FallbackLabel(fname),
              "Fallback1 YYMMDD parse error")
  ELSE IF pattern_fb_dash(fname) /\ ParseFallback(fname).ok
  THEN Branch("Fallback2", 5, ParseFallback(fname), FallbackLabel(fname),
              "Fallback2 YYMMDD parse error")
  ELSE Branch("None", 5, [ok |-> FALSE, dt |-> NoDate], "", "No pattern matched")

Classify(fname) ==
  IF pattern_iso_eq(fname)
  THEN Branch("ISO1", 1, ParseIso(IsoGroup2(fname, "=_=")),
              IsoGroup2(fname, "=_="), "ISO1 timestamp parse error")
  ELSE IF pattern_iso_us(fname)
  THEN Branch("ISO2", 2, ParseIso(IsoGroup2(fname, "__")),
              IsoGroup2(fname, "__"), "ISO2 timestamp parse error")
  ELSE IF pattern_alt(fname)
  THEN Branch("ALT", 3, StrptimeAlt(Sub(fname, 1, 19)),
              Sub(fname, 1, 19), "ALT timestamp parse error")
  ELSE IF pattern_fb_space(fname)
  THEN Branch("Fallback1", 4, ParseFallback(fname), FallbackLabel(fname),
              "Fallback1 YYMMDD parse error")
  ELSE IF pattern_fb_dash(fname)
  THEN Branch("Fallback2", 5, ParseFallback(fname), FallbackLabel(fname),
              "Fallback2 YYMMDD parse error")
  ELSE Branch("None", 5, [ok |-> FALSE, dt |-> NoDate], "", "No pattern matched")

(***************************************************************************)
(* Paths and the file system.  fs maps every existing path to its entry:   *)
(* kind "file" (regular file), "dir" (directory) or "other" (neither, for  *)
(* instance a dangling symbolic link), the identity of its content and its *)
(* size.                                                                   *)
(***************************************************************************)
\* os.path.join(a, b) for a relative b
Join(a, b) == a \o "/" \o b

\* os.path.basename(p)
Basename(p) ==
  LET slashes == {i \in 1..Len(p) : At(p, i) = "/"}
  IN  IF slashes = {} THEN p ELSE Sub(p, SetMax(slashes) + 1, Len(p))

\* os.path.dirname(p)
Dirname(p) ==
  LET slashes == {i \in 1..Len(p) : At(p, i) = "/"}
  IN  IF slashes = {} THEN "" ELSE Sub(p, 1, SetMax(slashes) - 1)

cwd == "/run"

folder_list == <<"/data", "/data2">>

match_log == Join(cwd, "0Match.log")

notmatch_log == Join(cwd, "0NotMatch.log")

changed_log == Join(cwd, "0FileChanged.log")

LogFiles == {match_log, notmatch_log, changed_log}

RiffMarker == "Not a valid JPG (looks more like a RIFF)"

\* the sizes a file can have
MaxSize == 2

\* the number of worker processes of the pool
NumWorkers == 2

\* the names of the entries of the scanned folders
PipelineNames ==
  {"alice=_=2024-03-05T090000Z.jpg",
   "2024-99-05 09.00.00 trip.jpg",
   "240305 trip.jpg",
   "holiday.jpg"}

\* what the external tool can write to stderr
StderrTexts ==
  {"Error: Not a valid JPG (looks more like a RIFF) - x.jpg\n",
   "Warning: minor issue\n"}

\* a line left in a log by an earlier run
StaleLine == "old.jpg --> from an earlier run"

FileEntry(id, n) == [kind |-> "file", content |-> id, size |-> n]

DirEntry(id) == [kind |-> "dir", content |-> id, size |-> 0]

VARIABLES
  fs,        \* the file system under the scanned folders and the quarantines
  logs,      \* the lines of each of the three log files
  written,   \* history: the lines written to each log file during the run
  pc,        \* the position of main
  all_files, \* main's list of the paths to process
  summary,   \* the run counters
  task,      \* per submitted path: the state of its process_file call
  collected, \* the paths whose future main has consumed
  counted,   \* history: per path, the number of counter updates for it
  printed,   \* the summary as printed at the end, <<>> before
  probe,     \* classification probe: the name under test
  probed,    \* classification probe: <<>> or the result of the cascade
  mdir,      \* manual moves: the files of a folder and of its manual directory
  mover,     \* manual moves: per worker, the state of its move_to_manual call
  mcreated   \* manual moves: the number of files created so far

vars == <<fs, logs, written, pc, all_files, summary, task, collected, counted,
          printed, probe, probed, mdir, mover, mcreated>>

\* the variables of the manual moves
manual_vars == <<mdir, mover, mcreated>>

Range(seq) == {seq[i] : i \in 1..Len(seq)}

RECURSIVE SetToSeq(_)
\* the elements of a set in a fixed order (the order os.listdir returns them)
SetToSeq(S) ==
  IF S = {} THEN <<>>
  ELSE LET x == CHOOSE y \in S : TRUE IN <<x>> \o SetToSeq(S \ {x})

\* os.listdir(folder)
Listdir(fsv, folder) ==
  SetToSeq({Basename(p) : p \in {q \in DOMAIN fsv : Dirname(q) = folder}})

isdir(fsv, p) == p \in DOMAIN fsv /\ fsv[p].kind = "dir"

isfile(fsv, p) == p \in DOMAIN fsv /\ fsv[p].kind = "file"

\* fsv with path p bound to entry e
Bind(fsv, p, e) == [q \in DOMAIN fsv \cup {p} |-> IF q = p THEN e ELSE fsv[q]]

\* fsv without path p
Unbind(fsv, p) == [q \in DOMAIN fsv \ {p} |-> fsv[q]]

(***************************************************************************)
(* Initial states: one entry in /data (a regular file or a path that is    *)
(* neither file nor directory), optionally a subdirectory, one regular     *)
(* file in /data2, and the logs as an earlier run may have left them.      *)
(***************************************************************************)
InitialFs(n1, k1, withDir, n2) ==
  LET a == Join(folder_list[1], n1)
      b == Join(folder_list[2], n2)
      d == Join(folder_list[1], "archive")
      folders == [p \in Range(folder_list) |-> DirEntry(p)]
      files == Bind(Bind(folders, a, [kind |-> k1, content |-> a, size |-> 1]),
                    b, FileEntry(b, 2))
  IN  IF withDir THEN Bind(files, d, DirEntry(d)) ELSE files

ZeroSummary == [total |-> 0, match |-> 0, notmatch |-> 0, skipped |-> 0,
                increased |-> 0, decreased |-> 0]

Init ==
  /\ \E n1 \in PipelineNames, k1 \in {"file", "other"}, withDir \in BOOLEAN,
        n2 \in PipelineNames :
       fs = InitialFs(n1, k1, withDir, n2)
  /\ \E stale \in BOOLEAN :
       logs = [l \in LogFiles |-> IF stale THEN <<StaleLine>> ELSE <<>>]
  /\ written = [l \in LogFiles |-> <<>>]
  /\ pc = "enumerate"
  /\ all_files = <<>>
  /\ summary = ZeroSummary
  /\ task = <<>>
  /\ collected = {}
  /\ counted = <<>>
  /\ printed = <<>>
  /\ probe = ""
  /\ probed = <<>>
  /\ mdir = <<>>
  /\ mover = <<>>
  /\ mcreated = 0

(***************************************************************************)
(* The quarantine moves.  safe_move is a copy followed by the removal of   *)
(* the source; the two are separate steps of the worker.                   *)
(***************************************************************************)
\* a target that does not depend on the name of the source
safe_move_targetOneName(src, dst_dir) == Join(dst_dir, "moved.jpg")

\* target = os.path.join(dst_dir, os.path.basename(src))
safe_move_target(src, dst_dir) == Join(dst_dir, Basename(src))

\* a copy that creates the target and writes nothing to it
copy2Empty(fsv, src, target) ==
  Bind(fsv, target, [fsv[src] EXCEPT !.content = "", !.size = 0])

\* a copy that leaves an existing target as it is
copy2KeepExisting(fsv, src, target) ==
  IF target \in DOMAIN fsv THEN fsv ELSE Bind(fsv, target, fsv[src])

\* shutil.copy2(src, target): the target gets the content and size of src
copy2(fsv, src, target) == Bind(fsv, target, fsv[src])

\* a removal that leaves the file where it is
removeKeeps(fsv, src) == fsv

\* os.remove(src)
remove(fsv, src) == Unbind(fsv, src)

riff_dir == Join(cwd, "riff")

failed_dir == Join(cwd, "failed")

(***************************************************************************)
(* process_file, one call per submitted path.                              *)
(***************************************************************************)
NoCls == [matcher |-> "", tried |-> <<>>, ok |-> FALSE, dt |-> NoDate,
          timestamp_str |-> "", reason |-> ""]

NewTask ==
  [pc |-> "queued", size_before |-> 0, size_after |-> 0, cls |-> NoCls,
   rc |-> 0, stderr |-> "", dst_dir |-> "", message |-> "", target |-> "",
   result |-> <<>>,
   \* history of the call
   tool_runs |-> 0, copies |-> 0, removes |-> 0, read_ok |-> TRUE,
   tool_size |-> 0, final_size |-> 0,
   \* the paths whose move to the same target was complete when the copy began
   after |-> {},
   \* the number of executor.submit calls for the path
   submits |-> 0]

\* a return that leaves the sizes out
ResultNoSizes(fname, timestamp, status, sizes) ==
  [fname |-> fname, timestamp |-> timestamp, status |-> status, sizes |-> <<>>]

\* the tuple process_file returns; None is the empty sequence
Result(fname, timestamp, status, sizes) ==
  [fname |-> fname, timestamp |-> timestamp, status |-> status, sizes |-> sizes]

RECURSIVE LStrip(_)
LStrip(s) ==
  IF Len(s) > 0 /\ At(s, 1) \in Whitespace THEN LStrip(Sub(s, 2, Len(s))) ELSE s

RECURSIVE RStrip(_)
RStrip(s) ==
  IF Len(s) > 0 /\ At(s, Len(s)) \in Whitespace
  THEN RStrip(Sub(s, 1, Len(s) - 1)) ELSE s

\* str.strip()
Strip(s) == RStrip(LStrip(s))

\* the paths whose call occupies a worker process
Running == {f \in DOMAIN task : task[f].pc \in {"tool", "copy", "remove"}}

\* a size_after that is never read
SizeAfterStale(fsv, fpath, size_before, readable) == size_before

\* lines 190-193: os.path.getsize(fpath) after the tool ran, size_before on OSError
SizeAfter(fsv, fpath, size_before, readable) ==
  IF readable THEN fsv[fpath].size ELSE size_before

\* an exit handling that looks at stderr before it looks at the exit code
AfterToolMarkerFirst(t, fname) ==
  IF Contains(Strip(t.stderr), RiffMarker)
  THEN [t EXCEPT !.pc = "copy", !.dst_dir = riff_dir,
                 !.message = "RIFF detected"]
  ELSE IF t.rc = 0
  THEN [t EXCEPT !.pc = "done",
                 !.result = <<Result(fname, <<t.cls.timestamp_str>>, "match",
                                     <<t.size_before, t.size_after>>)>>]
  ELSE [t EXCEPT !.pc = "copy", !.dst_dir = failed_dir,
                 !.message = "Exiftool error: " \o Strip(t.stderr)]

\* an exit handling without the RIFF case
AfterToolNoRiff(t, fname) ==
  IF t.rc = 0
  THEN [t EXCEPT !.pc = "done",
                 !.result = <<Result(fname, <<t.cls.timestamp_str>>, "match",
                                     <<t.size_before, t.size_after>>)>>]
  ELSE [t EXCEPT !.pc = "copy", !.dst_dir = failed_dir,
                 !.message = "Exiftool error: " \o Strip(t.stderr)]

\* an exit handling that runs the tool a second time after a failure
AfterToolRetry(t, fname) ==
  IF t.rc = 0
  THEN [t EXCEPT !.pc = "done",
                 !.result = <<Result(fname, <<t.cls.timestamp_str>>, "match",
                                     <<t.size_before, t.size_after>>)>>]
  ELSE IF t.tool_runs < 2
  THEN [t EXCEPT !.pc = "tool"]
  ELSE IF Contains(Strip(t.stderr), RiffMarker)
  THEN [t EXCEPT !.pc = "copy", !.dst_dir = riff_dir,
                 !.message = "RIFF detected"]
  ELSE [t EXCEPT !.pc = "copy", !.dst_dir = failed_dir,
                 !.message = "Exiftool error: " \o Strip(t.stderr)]

\* lines 195-207: what follows the tool's exit
AfterTool(t, fname) ==
  IF t.rc = 0
  THEN [t EXCEPT !.pc = "done",
                 !.result = <<Result(fname, <<t.cls.timestamp_str>>, "match",
                                     <<t.size_before, t.size_after>>)>>]
  ELSE IF Contains(Strip(t.stderr), RiffMarker)
  THEN [t EXCEPT !.pc = "copy", !.dst_dir = riff_dir,
                 !.message = "RIFF detected"]
  ELSE [t EXCEPT !.pc = "copy", !.dst_dir = failed_dir,
                 !.message = "Exiftool error: " \o Strip(t.stderr)]

\* a process_file that hands a file to the tool whether or not it was classified
AfterClassifyAlwaysTool(t, c, size) ==
  [t EXCEPT !.size_before = size, !.size_after = size, !.cls = c,
            !.pc = "tool", !.dst_dir = "", !.message = c.reason]

\* lines 105-181: a classified file goes on to the tool, any other one is
\* moved to failed and returns (size_before, size_before)
AfterClassify(t, c, size) ==
  [t EXCEPT !.size_before = size, !.size_after = size, !.cls = c,
            !.pc = IF c.ok THEN "tool" ELSE "copy",
            !.dst_dir = IF c.ok THEN "" ELSE failed_dir,
            !.message = c.reason]

\* lines 96-178: the checks, the size read and the cascade
Start(f) ==
  /\ f \in DOMAIN task
  /\ task[f].pc = "queued"
  /\ Cardinality(Running) < NumWorkers
  /\ LET fname == Basename(f) IN
       IF ~isfile(fs, f)
       THEN task' = [task EXCEPT ![f].pc = "done",
                       ![f].result = <<Result(fname, <<>>, "skip", <<>>)>>]
       ELSE \E readable \in BOOLEAN :
              IF ~readable
              THEN task' = [task EXCEPT ![f].pc = "done",
                              ![f].result =
                                <<Result(fname, <<>>, "error_size_before", <<>>)>>]
              ELSE task' = [task EXCEPT
                              ![f] = AfterClassify(@, Classify(fname), fs[f].size)]
  /\ UNCHANGED <<fs, logs, written, pc, all_files, summary, collected, counted,
                 printed, probe, probed, manual_vars>>

\* lines 183-197: the external tool rewrites the file in place and exits
RunTool(f) ==
  /\ f \in DOMAIN task
  /\ task[f].pc = "tool"
  /\ \E rc \in {0, 1}, err \in StderrTexts, newsize \in 0..MaxSize,
        readable \in BOOLEAN :
       LET fs2 == Bind(fs, f, [fs[f] EXCEPT !.size = newsize])
           t == [task[f] EXCEPT
                   !.rc = rc, !.stderr = err,
                   !.tool_runs = @ + 1, !.tool_size = newsize,
                   !.read_ok = readable,
                   !.size_after = SizeAfter(fs2, f, task[f].size_before, readable)]
       IN  /\ fs' = fs2
           /\ task' = [task EXCEPT ![f] = AfterTool(t, Basename(f))]
  /\ UNCHANGED <<logs, written, pc, all_files, summary, collected, counted,
                 printed, probe, probed, manual_vars>>

\* line 183: subprocess.run raises (the tool cannot be launched)
ToolRaises(f) ==
  /\ f \in DOMAIN task
  /\ task[f].pc = "tool"
  /\ task' = [task EXCEPT ![f].pc = "raised"]
  /\ UNCHANGED <<fs, logs, written, pc, all_files, summary, collected, counted,
                 printed, probe, probed, manual_vars>>

\* lines 58-60: makedirs, target, copy2
Copy(f) ==
  /\ f \in DOMAIN task
  /\ task[f].pc = "copy"
  /\ LET target == safe_move_target(f, task[f].dst_dir) IN
       /\ fs' = copy2(fs, f, target)
       /\ task' = [task EXCEPT
            ![f].pc = "remove", ![f].target = target, ![f].copies = @ + 1,
            ![f].after = {g \in DOMAIN task \ {f} :
                            task[g].removes = 1 /\ task[g].target = target}]
  /\ UNCHANGED <<logs, written, pc, all_files, summary, collected, counted,
                 printed, probe, probed, manual_vars>>

\* lines 58-61: makedirs, copy2 or os.remove raises OSError
MoveRaises(f) ==
  /\ f \in DOMAIN task
  /\ task[f].pc \in {"copy", "remove"}
  /\ task' = [task EXCEPT ![f].pc = "raised"]
  /\ UNCHANGED <<fs, logs, written, pc, all_files, summary, collected, counted,
                 printed, probe, probed, manual_vars>>

\* lines 61-62 and the return that follows the move (the arrow of the
\* message is written "->")
Remove(f) ==
  /\ f \in DOMAIN task
  /\ task[f].pc = "remove"
  /\ fs' = remove(fs, f)
  /\ LET t == task[f] IN
       task' = [task EXCEPT
         ![f].pc = "done",
         ![f].removes = @ + 1,
         ![f].final_size = fs[t.target].size,
         ![f].result =
           <<Result(Basename(f), <<t.message \o " -> moved to " \o t.target>>,
                    "notmatch", <<t.size_before, t.size_after>>)>>]
  /\ UNCHANGED <<logs, written, pc, all_files, summary, collected, counted,
                 printed, probe, probed, manual_vars>>

(***************************************************************************)
(* main: enumeration, the opening of the logs and the submission of the    *)
(* files, the collection of the results in completion order, the summary.  *)
(***************************************************************************)
RECURSIVE Scan(_, _)
\* the paths os.path.join(folder, entry) in the order lines 215-218 visit them
Scan(fsv, folders) ==
  IF folders = <<>> THEN <<>>
  ELSE LET folder == Head(folders)
           entries == IF isdir(fsv, folder) THEN Listdir(fsv, folder) ELSE <<>>
       IN  [i \in 1..Len(entries) |-> Join(folder, entries[i])]
             \o Scan(fsv, Tail(folders))

\* the entries line 219 finds to be directories
SkippedDirs(fsv) == SelectSeq(Scan(fsv, folder_list), LAMBDA p : isdir(fsv, p))

\* all_files after the loop of lines 215-225
EnumeratedFiles(fsv) == SelectSeq(Scan(fsv, folder_list), LAMBDA p : ~isdir(fsv, p))

\* the lines of line 221, one per skipped directory
SkipLines(fsv) ==
  [i \in 1..Len(SkippedDirs(fsv)) |->
     Basename(SkippedDirs(fsv)[i]) \o " --> skipped directory"]

\* open(path, "a") ... write(lines): append to what the file holds
AppendLines(lg, path, lines) == [lg EXCEPT ![path] = @ \o lines]

\* open(path, "w"): the file is emptied
Truncate(lg, path) == [lg EXCEPT ![path] = <<>>]

\* lines 213-227
Enumerate ==
  /\ pc = "enumerate"
  /\ logs' = AppendLines(logs, notmatch_log, SkipLines(fs))
  /\ written' = AppendLines(written, notmatch_log, SkipLines(fs))
  /\ all_files' = EnumeratedFiles(fs)
  /\ summary' = [summary EXCEPT !.skipped = @ + Len(SkippedDirs(fs)),
                                !.total = Len(EnumeratedFiles(fs))]
  /\ pc' = "open"
  /\ UNCHANGED <<fs, task, collected, counted, printed, probe, probed, manual_vars>>

\* the three logs after the open(..., "w") of lines 229-231
OpenedLogs(lg) == Truncate(Truncate(Truncate(lg, match_log), notmatch_log), changed_log)

\* lines 229-234: the logs are opened for writing, every file is submitted
OpenAndSubmit ==
  /\ pc = "open"
  /\ logs' = OpenedLogs(logs)
  /\ task' = [f \in Range(all_files) |->
                [NewTask EXCEPT !.submits =
                   Cardinality({i \in 1..Len(all_files) : all_files[i] = f})]]
  /\ counted' = [f \in Range(all_files) |-> 0]
  /\ pc' = "collect"
  /\ UNCHANGED <<fs, written, all_files, summary, collected, printed, probe, probed, manual_vars>>

\* a collection that writes a line for a skipped path
StatusLineSkipLogged(r) ==
  IF r.status = "match"
  THEN <<match_log, r.fname \o " --> " \o r.timestamp[1]>>
  ELSE IF r.status = "notmatch"
  THEN <<notmatch_log, r.fname \o " --> " \o r.timestamp[1]>>
  ELSE IF r.status = "skip" THEN <<notmatch_log, r.fname \o " --> skipped">>
  ELSE <<notmatch_log, r.fname \o " --> Unknown error">>

\* lines 241-258: the log line of a result, as <<log file, line>>, or <<>>
StatusLine(r) ==
  IF r.status = "match"
  THEN <<match_log, r.fname \o " --> " \o r.timestamp[1]>>
  ELSE IF r.status = "notmatch"
  THEN <<notmatch_log, r.fname \o " --> " \o r.timestamp[1]>>
  ELSE IF r.status = "skip" THEN <<>>
  ELSE <<notmatch_log, r.fname \o " --> Unknown error">>

\* a fold that counts every result that is neither match nor notmatch as skipped
StatusCounterSkip(r) ==
  IF r.status = "match" THEN "match"
  ELSE IF r.status = "notmatch" THEN "notmatch"
  ELSE "skipped"

\* lines 241-258: the counter a result increments
StatusCounter(r) ==
  IF r.status = "match" THEN "match"
  ELSE IF r.status = "notmatch" THEN "notmatch"
  ELSE IF r.status = "skip" THEN "skipped"
  ELSE "notmatch"

\* a comparison that takes equal sizes for an increase
SizeChangeNotLess(r) ==
  IF r.sizes = <<>> THEN ""
  ELSE IF r.sizes[2] >= r.sizes[1] THEN "increased"
  ELSE "decreased"

\* lines 260-269: "increased", "decreased" or "" for the sizes of a result
SizeChange(r) ==
  IF r.sizes = <<>> THEN ""
  ELSE IF r.sizes[2] > r.sizes[1] THEN "increased"
  ELSE IF r.sizes[2] < r.sizes[1] THEN "decreased"
  ELSE ""

ChangeLine(r) ==
  r.fname \o " --> size " \o SizeChange(r) \o " (" \o ToStr(r.sizes[1])
    \o " -> " \o ToStr(r.sizes[2]) \o " bytes)"

\* the lines one result adds to the logs
ResultLines(lg, r) ==
  LET l1 == IF StatusLine(r) = <<>> THEN lg
            ELSE AppendLines(lg, StatusLine(r)[1], <<StatusLine(r)[2]>>)
  IN  IF SizeChange(r) = "" THEN l1
      ELSE AppendLines(l1, changed_log, <<ChangeLine(r)>>)

\* the counters after one result
Fold(sm, r) ==
  LET s1 == [sm EXCEPT ![StatusCounter(r)] = @ + 1]
  IN  IF SizeChange(r) = "" THEN s1
      ELSE [s1 EXCEPT ![SizeChange(r)] = @ + 1]

\* lines 236-269: one iteration of the loop over as_completed(futures)
Collect(f) ==
  /\ pc = "collect"
  /\ f \in DOMAIN task
  /\ f \notin collected
  /\ task[f].pc = "done"
  /\ LET r == task[f].result[1] IN
       /\ logs' = ResultLines(logs, r)
       /\ written' = ResultLines(written, r)
       /\ summary' = Fold(summary, r)
  /\ collected' = collected \cup {f}
  /\ counted' = [counted EXCEPT ![f] = @ + 1]
  /\ UNCHANGED <<fs, pc, all_files, task, printed, probe, probed, manual_vars>>

\* line 237: future.result() re-raises the exception of the call; nothing
\* catches it, main is left through the with statement
CollectRaises(f) ==
  /\ pc = "collect"
  /\ f \in DOMAIN task
  /\ f \notin collected
  /\ task[f].pc = "raised"
  /\ pc' = "aborted"
  /\ collected' = collected \cup {f}
  /\ UNCHANGED <<fs, logs, written, all_files, summary, task, counted, printed,
                 probe, probed, manual_vars>>

\* lines 271-277: the pool has drained, the summary is printed
PrintSummary ==
  /\ pc = "collect"
  /\ collected = Range(all_files)
  /\ printed' = <<summary>>
  /\ pc' = "done"
  /\ UNCHANGED <<fs, logs, written, all_files, summary, task, collected, counted,
                 probe, probed, manual_vars>>

Next ==
  \/ Enumerate
  \/ OpenAndSubmit
  \/ \E f \in DOMAIN task : Start(f)
  \/ \E f \in DOMAIN task : RunTool(f)
  \/ \E f \in DOMAIN task : ToolRaises(f)
  \/ \E f \in DOMAIN task : Copy(f)
  \/ \E f \in DOMAIN task : MoveRaises(f)
  \/ \E f \in DOMAIN task : Remove(f)
  \/ \E f \in DOMAIN task : Collect(f)
  \/ \E f \in DOMAIN task : CollectRaises(f)
  \/ PrintSummary

Spec == Init /\ [][Next]_vars

TypeOK ==
  /\ pc \in {"enumerate", "open", "collect", "done", "aborted"}
  /\ \A f \in DOMAIN task :
       task[f].pc \in {"queued", "tool", "copy", "remove", "done", "raised"}
  /\ collected \subseteq DOMAIN task

(***************************************************************************)
(* The cascade on its own: a name is drawn from ProbeNames and classified. *)
(***************************************************************************)
TwoDigits(n) == DigitSeq[(n \div 10) + 1] \o DigitSeq[(n % 10) + 1]

IsoStamps ==
  {"2024-03-05T090000Z", "2024-03-05T090000.123Z", "2024-13-01T130000Z",
   "2023-02-29T000000Z", "2024-02-29T235959.999Z", "2024-01-01T240000Z",
   "2024-01-01T235960Z", "0000-01-01T000000Z", "2024-03-05T0900Z"}

IsoNames ==
  {pre \o sep \o ts \o suf \o ext :
     pre \in {"", "alice", "a__2024-03-05T090000Z.x", "2024-13-05 09.00.00 ",
              "240305 a=_=2024-03-05T090000Z.x"},
     sep \in {"=_=", "__", "=_", " "},
     ts \in IsoStamps,
     suf \in {"", "_v2", " (1)", "!"},
     ext \in {".jpg", ""}}

AltNames ==
  {d \o " " \o t \o rest :
     d \in {"2024-03-05", "2024-99-05", "2024-02-30", "2024-00-10"},
     t \in {"09.00.00", "24.00.00", "09.60.00", "09.00.60", "09:00:00"},
     rest \in {" trip.jpg", ""}}

FallbackNames ==
  {TwoDigits(y) \o TwoDigits(m) \o TwoDigits(d) \o sep \o "x.jpg" :
     y \in 0..99, m \in {0, 1, 2, 4, 12, 13}, d \in {0, 1, 28, 29, 30, 31, 32},
     sep \in {" ", "-", "_"}}

ProbeNames == IsoNames \cup AltNames \cup FallbackNames \cup PipelineNames

InitProbe ==
  /\ probe \in ProbeNames
  /\ probed = <<>>
  /\ fs = <<>>
  /\ logs = [l \in LogFiles |-> <<>>]
  /\ written = [l \in LogFiles |-> <<>>]
  /\ pc = "done"
  /\ all_files = <<>>
  /\ summary = ZeroSummary
  /\ task = <<>>
  /\ collected = {}
  /\ counted = <<>>
  /\ printed = <<>>
  /\ mdir = <<>>
  /\ mover = <<>>
  /\ mcreated = 0

\* lines 108-178 applied to the name under test
Probe ==
  /\ probed = <<>>
  /\ probed' = <<Classify(probe)>>
  /\ UNCHANGED <<fs, logs, written, pc, all_files, summary, task, collected,
                 counted, printed, probe, manual_vars>>

NextProbe == Probe

SpecClassify == InitProbe /\ [][NextProbe]_vars

(***************************************************************************)
(* Properties.                                                             *)
(***************************************************************************)
\* whether the pattern of matcher m matches the name n structurally
Matches(m, n) ==
  CASE m = "ISO1" -> pattern_iso_eq(n)
    [] m = "ISO2" -> pattern_iso_us(n)
    [] m = "ALT" -> pattern_alt(n)
    [] m = "Fallback1" -> pattern_fb_space(n)
    [] m = "Fallback2" -> pattern_fb_dash(n)

\* the index of the first matcher, in the fixed order, that matches n; 0 if none
FirstMatch(n) ==
  LET hits == {i \in 1..Len(MatcherOrder) : Matches(MatcherOrder[i], n)}
  IN  IF hits = {} THEN 0 ELSE CHOOSE i \in hits : \A j \in hits : i <= j

\* the timestamp of the first matching pattern parses
ParsedOk(n) ==
  CASE FirstMatch(n) = 0 -> FALSE
    [] FirstMatch(n) = 1 -> ParseIso(IsoGroup2(n, "=_=")).ok
    [] FirstMatch(n) = 2 -> ParseIso(IsoGroup2(n, "__")).ok
    [] FirstMatch(n) = 3 -> StrptimeAlt(Sub(n, 1, 19)).ok
    [] OTHER -> ParseFallback(n).ok

\* for the names of the scanned entries: the first matching pattern and
\* whether its timestamp parses
NameClass ==
  [n \in PipelineNames |-> [first |-> FirstMatch(n), parsed |-> ParsedOk(n)]]

\* C1: the matchers are tried in the order ISO-equals, ISO-underscore,
\* Alternate, Fallback-space, Fallback-dash, and the first one that matches
\* structurally commits: the outcome is that matcher's, no later matcher is
\* evaluated, and when its timestamp does not parse the outcome is a failure
\* whose reason names that matcher; a name no pattern matches fails with
\* "No pattern matched".
C1_FirstMatchCommits ==
  probed /= <<>> =>
    LET r == probed[1]
        i == FirstMatch(probe)
    IN  IF i = 0
        THEN r.matcher = "None" /\ ~r.ok /\ r.reason = "No pattern matched"
        ELSE /\ r.matcher = MatcherOrder[i]
             /\ r.tried = SubSeq(MatcherOrder, 1, i)
             /\ ~r.ok =>
                  /\ Sub(r.reason, 1, Len(MatcherOrder[i])) = MatcherOrder[i]
                  /\ Contains(r.reason, "parse error")

\* C1 witness: a name that both ISO patterns match, whose ISO-equals timestamp
\* does not parse while its ISO-underscore timestamp would, has been classified
C1_Witness ==
  /\ probed /= <<>>
  /\ pattern_iso_eq(probe)
  /\ pattern_iso_us(probe)
  /\ ~probed[1].ok
  /\ ParseIso(IsoGroup2(probe, "__")).ok

\* the result of a finished call
Outcome(f) == task[f].result[1]

Finished(f) == f \in DOMAIN task /\ task[f].pc = "done"

\* the call for f went through the cascade (its path was a readable regular file)
Classified(f) == f \in DOMAIN task /\ task[f].cls.matcher /= ""

\* some line of the log file l starts with the name of f
HasLineFor(lg, l, f) ==
  \E i \in 1..Len(lg[l]) :
    Sub(lg[l][i], 1, Len(Basename(f)) + 5) = Basename(f) \o " --> "

\* C2: an exception raised while one file is processed does not abort the
\* batch: main records a not-matched entry for that file, keeps collecting
\* and prints the summary.
C2_ExceptionDoesNotAbort ==
  \A f \in collected :
    task[f].pc = "raised" =>
      /\ pc \in {"collect", "done"}
      /\ counted[f] = 1
      /\ HasLineFor(written, notmatch_log, f)

\* C3: the tool is run only for files whose timestamp was parsed; a file whose
\* classification failed (no pattern, or a timestamp that does not parse) and
\* whose call returned was moved to the failed quarantine, is gone from its
\* source path, and has status notmatch.
C3_ClassificationFailure ==
  \A f \in DOMAIN task :
    LET t == task[f] IN
      /\ (t.pc = "tool" \/ t.tool_runs > 0) =>
           Classified(f) /\ NameClass[Basename(f)].parsed
      /\ (Finished(f) /\ Classified(f) /\ ~NameClass[Basename(f)].parsed) =>
           /\ Outcome(f).status = "notmatch"
           /\ t.tool_runs = 0
           /\ t.copies = 1 /\ t.removes = 1
           /\ t.target = "/run/failed/" \o Basename(f)
           /\ t.target \in DOMAIN fs
           /\ f \notin DOMAIN fs

\* C3 witness: a file whose timestamp does not parse and a file that no
\* pattern matches have both been moved to failed
C3_Witness ==
  \E f, g \in DOMAIN task :
    /\ Finished(f) /\ Classified(f) /\ NameClass[Basename(f)].first = 0
    /\ Finished(g) /\ Classified(g) /\ NameClass[Basename(g)].first > 0
    /\ ~NameClass[Basename(g)].parsed
    /\ task[f].target \in DOMAIN fs /\ task[g].target \in DOMAIN fs

\* the tool ran for f and exited with a code other than 0
ToolFailed(f) == f \in DOMAIN task /\ task[f].tool_runs > 0 /\ task[f].rc /= 0

\* the tool ran for f and exited with code 0
ToolSucceeded(f) == f \in DOMAIN task /\ task[f].tool_runs > 0 /\ task[f].rc = 0

\* C4: after a non-zero exit of the tool the file is moved to exactly one
\* quarantine, riff if and only if stderr contains the container-format
\* marker and failed otherwise, and the call returns notmatch with the file
\* gone from its source path.
C4_ToolFailureRouting ==
  \A f \in DOMAIN task :
    LET t == task[f]
        dst == IF Contains(t.stderr, RiffMarker) THEN "/run/riff" ELSE "/run/failed"
    IN  ToolFailed(f) =>
          /\ t.pc \in {"copy", "remove", "done", "raised"}
          /\ t.dst_dir = dst
          /\ t.copies <= 1
          /\ t.pc \in {"remove", "done"} =>
               t.copies = 1 /\ t.target = dst \o "/" \o Basename(f)
          /\ t.pc = "done" =>
               /\ Outcome(f).status = "notmatch"
               /\ t.removes = 1
               /\ t.target \in DOMAIN fs
               /\ f \notin DOMAIN fs

\* C4 witness: one file went to riff after a failure with the marker, another
\* one to failed after a failure without it
C4_Witness ==
  \E f, g \in DOMAIN task :
    /\ ToolFailed(f) /\ Finished(f) /\ Contains(task[f].stderr, RiffMarker)
    /\ task[f].target = "/run/riff/" \o Basename(f)
    /\ ToolFailed(g) /\ Finished(g) /\ ~Contains(task[g].stderr, RiffMarker)
    /\ task[g].target = "/run/failed/" \o Basename(g)

\* the timestamp label of the names of the scanned entries
NameLabel == [n \in PipelineNames |-> Classify(n).timestamp_str]

\* C5: when the tool exits with code 0 the call returns match whatever stderr
\* holds, with the timestamp label as diagnostic, and the file stays at its
\* path; a file with status match is never copied or removed.
C5_ExitZeroIsMatch ==
  \A f \in DOMAIN task :
    LET t == task[f] IN
      /\ ToolSucceeded(f) =>
           /\ t.pc = "done"
           /\ Outcome(f).status = "match"
           /\ Outcome(f).timestamp = <<NameLabel[Basename(f)]>>
      /\ (Finished(f) /\ Outcome(f).status = "match") =>
           /\ t.copies = 0 /\ t.removes = 0
           /\ isfile(fs, f)
           /\ fs[f].content = f

\* C5 witness: a call returned match although stderr held the marker
C5_Witness ==
  \E f \in DOMAIN task :
    /\ ToolSucceeded(f) /\ Finished(f)
    /\ Contains(task[f].stderr, RiffMarker)
    /\ Outcome(f).status = "match"
    /\ isfile(fs, f)

\* the subdirectories directly under the scanned folders
Subdirectories ==
  {p \in DOMAIN fs : isdir(fs, p) /\ Dirname(p) \in Range(folder_list)}

\* C6: a subdirectory of a scanned folder is not recursed into and not
\* dispatched, counts once in skipped and not in total, and its
\* "skipped directory" line is in 0NotMatch.log when the run completes.
C6_SkippedDirectoryLogged ==
  pc = "done" =>
    /\ \A d \in Subdirectories :
         /\ d \notin DOMAIN task
         /\ \A p \in DOMAIN task : Sub(p, 1, Len(d) + 1) /= d \o "/"
         /\ \E i \in 1..Len(logs[notmatch_log]) :
              logs[notmatch_log][i] = Basename(d) \o " --> skipped directory"
    /\ summary.total = Cardinality(DOMAIN task)
    /\ summary.skipped >= Cardinality(Subdirectories)

\* C7: each log is truncated before anything is written to it in the run, so
\* at the end of the run a log holds exactly the lines written to it during
\* the run, and no line of an earlier run.
C7_TruncateThenAppend ==
  pc \in {"done", "aborted"} => \A l \in LogFiles : logs[l] = written[l]

\* main consumes, in this step, the result of a call that could not read the
\* size of its file
CollectsUnreadable(f) ==
  /\ f \notin collected
  /\ f \in collected'
  /\ Finished(f)
  /\ Outcome(f).status = "error_size_before"

\* the call for f neither ran the tool nor moved the file, which is where it was
Untouched(f) ==
  /\ task[f].tool_runs = 0 /\ task[f].copies = 0 /\ task[f].removes = 0
  /\ isfile(fs, f)
  /\ fs[f].content = f

\* C8 as stated: a file whose size cannot be read is left alone and counts as
\* skipped, not as matched or not-matched.
C8_UnreadableCountsSkipped ==
  [][\A f \in DOMAIN task :
       CollectsUnreadable(f) =>
         /\ Untouched(f) /\ fs' = fs
         /\ summary'.skipped = summary.skipped + 1
         /\ summary'.notmatch = summary.notmatch
         /\ summary'.match = summary.match]_vars

\* C8 amended: a file whose size cannot be read is left alone and counts as
\* not-matched: notmatch is incremented, skipped and match are not, and the
\* line "<name> --> Unknown error" is appended to 0NotMatch.log.
C8_UnreadableCountsNotMatched ==
  [][\A f \in DOMAIN task :
       CollectsUnreadable(f) =>
         /\ Untouched(f) /\ fs' = fs
         /\ summary'.notmatch = summary.notmatch + 1
         /\ summary'.skipped = summary.skipped
         /\ summary'.match = summary.match
         /\ logs' = [logs EXCEPT ![notmatch_log] =
                       Append(@, Basename(f) \o " --> Unknown error")]]_vars

\* C8 witness: the result of a call that could not read the size has been
\* consumed by main
C8_Witness ==
  \E f \in collected :
    /\ Finished(f)
    /\ Outcome(f).status = "error_size_before"
    /\ counted[f] = 1
    /\ summary.notmatch >= 1

\* C9: when the run is over every dispatched file has updated the counters
\* exactly once, and match + notmatch + (skipped - skipped directories) = total.
C9_EveryFileCountedOnce ==
  pc \in {"done", "aborted"} =>
    /\ \A f \in Range(all_files) : counted[f] = 1
    /\ summary.match + summary.notmatch
         + (summary.skipped - Cardinality(Subdirectories)) = summary.total

\* the call for f returned after a quarantine move
Quarantined(f) == Finished(f) /\ task[f].removes = 1

\* C10 as stated: the size-after of a quarantined file is the size of the file
\* at its quarantine destination after the move (size-before only when the
\* read failed).
C10_SizeAfterAtDestination ==
  \A f \in DOMAIN task :
    Quarantined(f) =>
      \/ Outcome(f).sizes[2] = task[f].final_size
      \/ ~task[f].read_ok /\ Outcome(f).sizes[2] = Outcome(f).sizes[1]

\* C10 amended: size-after is read at the original path right after the tool
\* ran and before any move: it is the size the tool left there (size-before
\* when that read fails), also for a file that is then quarantined; for a file
\* left in place it is the size at its path; a file whose classification
\* failed is not read again and has size-after equal to size-before.
C10_SizeAfterAtSource ==
  \A f \in DOMAIN task :
    (Finished(f) /\ Outcome(f).sizes /= <<>>) =>
      LET t == task[f]
          before == Outcome(f).sizes[1]
          after == Outcome(f).sizes[2]
      IN  /\ t.tool_runs = 0 => after = before
          /\ (t.tool_runs > 0 /\ t.read_ok) => after = t.tool_size
          /\ (t.tool_runs > 0 /\ ~t.read_ok) => after = before
          /\ (Outcome(f).status = "match" /\ t.read_ok) => after = fs[f].size

\* C10 witness: a file whose size the tool changed was quarantined, and another
\* file of the same name has since replaced it at the destination with a
\* different size
C10_Witness ==
  \E f \in DOMAIN task :
    /\ Quarantined(f)
    /\ task[f].tool_runs > 0 /\ task[f].read_ok
    /\ Outcome(f).sizes[2] /= Outcome(f).sizes[1]
    /\ fs[task[f].target].content /= f
    /\ fs[task[f].target].size /= Outcome(f).sizes[2]

\* the call for f is inside safe_move: before the copy or between copy and removal
Moving(f) == f \in DOMAIN task /\ task[f].pc \in {"copy", "remove"}

\* the destination of the move of f
Destination(f) == safe_move_target(f, task[f].dst_dir)

AtSource(fsv, f) == f \in DOMAIN fsv /\ fsv[f].content = f

AtDestination(fsv, f) ==
  Destination(f) \in DOMAIN fsv /\ fsv[Destination(f)].content = f

\* the destination of f holds the content of another submitted file
Overwritten(fsv, f) ==
  /\ Destination(f) \in DOMAIN fsv
  /\ \E g \in DOMAIN task \ {f} : fsv[Destination(f)].content = g

\* C11 as stated: whatever step is taken while a file is being moved (by its
\* own worker, by another worker, or a failure that ends the move), the
\* content of the file is afterwards at its source path or at its destination.
C11_ContentAtSourceOrDestination ==
  [][\A f \in DOMAIN task :
       Moving(f) => AtSource(fs', f) \/ AtDestination(fs', f)]_vars

\* C11 amended: the source is removed only after the copy, so while a file is
\* being moved its content is at the source path until the removal, and after
\* the removal at the destination, unless a file of the same name coming from
\* another folder was copied to that destination in the meantime.
C11_ContentKeptUnlessOverwritten ==
  [][\A f \in DOMAIN task :
       Moving(f) =>
         /\ AtSource(fs', f) \/ AtDestination(fs', f) \/ Overwritten(fs', f)
         /\ task'[f].removes = 0 => AtSource(fs', f)
         /\ task'[f].removes = 1 => task'[f].copies = 1]_vars

\* C11 witness: a move failed between copy and removal and left two copies
C11_Witness ==
  \E f \in DOMAIN task :
    /\ task[f].pc = "raised"
    /\ task[f].copies = 1
    /\ AtSource(fs, f)
    /\ AtDestination(fs, f)

(***************************************************************************)
(* move_to_manual.  Files appear in one folder, workers move them to the   *)
(* manual directory of that folder; every test of os.path.exists, the copy *)
(* and the removal are separate steps.  The content of a file is the       *)
(* number of its creation.                                                 *)
(***************************************************************************)
\* the number of files that appear in the folder
MaxCreated == 3

ManualFolder == "/data"

\* the base names of the files that appear in the folder
ManualNames == {"a.jpg", "a (1).jpg"}

\* os.path.splitext(base): the extension starts at the last dot, leading dots
\* do not count
Splitext(base) ==
  LET dots == {i \in 2..Len(base) :
                 At(base, i) = "." /\ \E j \in 1..(i - 1) : At(base, j) /= "."}
  IN  IF dots = {} THEN <<base, "">>
      ELSE <<Sub(base, 1, SetMax(dots) - 1), Sub(base, SetMax(dots), Len(base))>>

\* line 72: manual_dir
manual_dir(fpath) == Join(Dirname(fpath), "manual")

\* lines 82-83: new_target for a counter
new_target(fpath, counter) ==
  Join(manual_dir(fpath),
       Splitext(Basename(fpath))[1] \o " (" \o ToStr(counter) \o ")"
         \o Splitext(Basename(fpath))[2])

IdleMover ==
  [pc |-> "idle", fpath |-> "", target |-> "", counter |-> 0,
   \* history of the call: the content it moves, the directory when it began
   content |-> 0, before |-> <<>>]

MoverIds == 1..NumWorkers

Active == {w \in MoverIds : mover[w].pc \in {"exists", "loop", "copy", "remove"}}

InitManual ==
  /\ mdir = <<>>
  /\ mover = [w \in MoverIds |-> IdleMover]
  /\ mcreated = 0
  /\ fs = <<>>
  /\ logs = [l \in LogFiles |-> <<>>]
  /\ written = [l \in LogFiles |-> <<>>]
  /\ pc = "done"
  /\ all_files = <<>>
  /\ summary = ZeroSummary
  /\ task = <<>>
  /\ collected = {}
  /\ counted = <<>>
  /\ printed = <<>>
  /\ probe = ""
  /\ probed = <<>>

pipeline_vars == <<fs, logs, written, pc, all_files, summary, task, collected,
                   counted, printed, probe, probed>>

\* a file with a new content appears in the folder
MCreate(name) ==
  /\ mcreated < MaxCreated
  /\ Join(ManualFolder, name) \notin DOMAIN mdir
  /\ mdir' = Bind(mdir, Join(ManualFolder, name), mcreated + 1)
  /\ mcreated' = mcreated + 1
  /\ UNCHANGED <<mover, pipeline_vars>>

\* lines 70-76: a worker is given a file of the folder; at most limit calls
\* run at the same time
MBegin(w, limit) ==
  /\ mover[w].pc \in {"idle", "done"}
  /\ Cardinality(Active) < limit
  /\ \E name \in ManualNames :
       LET fpath == Join(ManualFolder, name) IN
         /\ fpath \in DOMAIN mdir
         /\ \A v \in Active : mover[v].fpath /= fpath
         /\ mover' = [mover EXCEPT ![w] =
              [pc |-> "exists", fpath |-> fpath,
               target |-> Join(manual_dir(fpath), Basename(fpath)),
               counter |-> 0, content |-> mdir[fpath], before |-> mdir]]
  /\ UNCHANGED <<mdir, mcreated, pipeline_vars>>

\* lines 78-80: the test of the plain target
MExists(w) ==
  /\ mover[w].pc = "exists"
  /\ mover' = [mover EXCEPT ![w] =
       IF mover[w].target \in DOMAIN mdir
       THEN [@ EXCEPT !.pc = "loop", !.counter = 1]
       ELSE [@ EXCEPT !.pc = "copy"]]
  /\ UNCHANGED <<mdir, mcreated, pipeline_vars>>

\* a loop that takes the first numbered name without testing it
LoopStepUntested(m, dir) ==
  [m EXCEPT !.pc = "copy", !.target = new_target(m.fpath, m.counter)]

\* lines 81-87: one iteration of the loop over the counter
LoopStep(m, dir) ==
  IF new_target(m.fpath, m.counter) \notin DOMAIN dir
  THEN [m EXCEPT !.pc = "copy", !.target = new_target(m.fpath, m.counter)]
  ELSE [m EXCEPT !.counter = @ + 1]

MLoop(w) ==
  /\ mover[w].pc = "loop"
  /\ mover' = [mover EXCEPT ![w] = LoopStep(@, mdir)]
  /\ UNCHANGED <<mdir, mcreated, pipeline_vars>>

\* line 89: shutil.copy2(fpath, target)
MCopy(w) ==
  /\ mover[w].pc = "copy"
  /\ mdir' = Bind(mdir, mover[w].target, mdir[mover[w].fpath])
  /\ mover' = [mover EXCEPT ![w].pc = "remove"]
  /\ UNCHANGED <<mcreated, pipeline_vars>>

\* lines 90-91: os.remove(fpath), return target
MRemove(w) ==
  /\ mover[w].pc = "remove"
  /\ mdir' = Unbind(mdir, mover[w].fpath)
  /\ mover' = [mover EXCEPT ![w].pc = "done"]
  /\ UNCHANGED <<mcreated, pipeline_vars>>

\* the moves run one after the other
NextManualSeq ==
  \/ \E name \in ManualNames : MCreate(name)
  \/ \E w \in MoverIds : MBegin(w, 1)
  \/ \E w \in MoverIds : MExists(w)
  \/ \E w \in MoverIds : MLoop(w)
  \/ \E w \in MoverIds : MCopy(w)
  \/ \E w \in MoverIds : MRemove(w)

SpecManualSeq == InitManual /\ [][NextManualSeq]_vars

\* the moves run in the workers of the pool, side by side
NextManual ==
  \/ \E name \in ManualNames : MCreate(name)
  \/ \E w \in MoverIds : MBegin(w, NumWorkers)
  \/ \E w \in MoverIds : MExists(w)
  \/ \E w \in MoverIds : MLoop(w)
  \/ \E w \in MoverIds : MCopy(w)
  \/ \E w \in MoverIds : MRemove(w)

SpecManual == InitManual /\ [][NextManual]_vars

\* the paths of dir that lie in the manual directory
InManual(dir) == {p \in DOMAIN dir : Dirname(p) = Join(ManualFolder, "manual")}

\* the name a move of fpath must take in a directory dir: the plain name if
\* it is unused, else the numbered name with the smallest unused counter
ExpectedTarget(dir, fpath) ==
  IF Join(manual_dir(fpath), Basename(fpath)) \notin DOMAIN dir
  THEN Join(manual_dir(fpath), Basename(fpath))
  ELSE LET k == CHOOSE k \in 1..(Cardinality(DOMAIN dir) + 1) :
                  /\ new_target(fpath, k) \notin DOMAIN dir
                  /\ \A j \in 1..(k - 1) : new_target(fpath, j) \in DOMAIN dir
       IN  new_target(fpath, k)

\* C12: moves to the manual directory that run one after the other never
\* overwrite: a move lands at the plain name if it is unused and else at
\* "name (k).ext" with k the smallest positive counter whose name is unused,
\* so moves of files named a.jpg into an empty directory land at a.jpg,
\* a (1).jpg, a (2).jpg; every file that was in the directory keeps its content.
C12_ManualNeverOverwrites ==
  \A w \in MoverIds :
    LET m == mover[w] IN
      /\ m.pc \in {"copy", "remove", "done"} =>
           /\ m.target = ExpectedTarget(m.before, m.fpath)
           /\ m.target \notin DOMAIN m.before
      /\ m.pc \in {"remove", "done"} =>
           /\ m.target \in DOMAIN mdir /\ mdir[m.target] = m.content
      /\ m.pc /= "idle" =>
           \A p \in InManual(m.before) : p \in DOMAIN mdir /\ mdir[p] = m.before[p]
      /\ (m.pc = "done" /\ m.fpath = "/data/a.jpg" /\ InManual(m.before) = {}) =>
           m.target = "/data/manual/a.jpg"
      /\ (m.pc = "done" /\ m.fpath = "/data/a.jpg"
            /\ InManual(m.before) = {"/data/manual/a.jpg"}) =>
           m.target = "/data/manual/a (1).jpg"
      /\ (m.pc = "done" /\ m.fpath = "/data/a.jpg"
            /\ InManual(m.before) = {"/data/manual/a.jpg", "/data/manual/a (1).jpg"}) =>
           m.target = "/data/manual/a (2).jpg"

\* C12 witness: three files named a.jpg were moved and are in the manual
\* directory as a.jpg, a (1).jpg and a (2).jpg, in the order of their creation
C12_Witness ==
  /\ \E w \in MoverIds : mover[w].pc = "done"
  /\ DOMAIN mdir = {"/data/manual/a.jpg", "/data/manual/a (1).jpg",
                    "/data/manual/a (2).jpg"}
  /\ mdir["/data/manual/a.jpg"] = 1
  /\ mdir["/data/manual/a (1).jpg"] = 2
  /\ mdir["/data/manual/a (2).jpg"] = 3

\* C13: when a file is moved to riff or failed after the move of a file of the
\* same name to the same category was complete, the second move overwrites:
\* the one file of that name in the category holds the content and size of
\* the second file, and both source paths are gone.
C13_SecondMoveOverwrites ==
  \A f \in DOMAIN task : \A g \in task[f].after :
    /\ task[g].target = task[f].target
    /\ Basename(g) = Basename(f)
    /\ g \notin DOMAIN fs
    /\ fs[task[f].target].content = f
    /\ Quarantined(f) =>
         /\ f \notin DOMAIN fs
         /\ fs[task[f].target].size = Outcome(f).sizes[2] \/ ~task[f].read_ok
         /\ {p \in DOMAIN fs : Dirname(p) = task[f].dst_dir
                               /\ Basename(p) = Basename(f)} = {task[f].target}

\* C13 witness: two files of the same name were moved to failed one after the
\* other, and the file there is the second one
C13_Witness ==
  \E f \in DOMAIN task : \E g \in task[f].after :
    /\ Quarantined(f) /\ Quarantined(g)
    /\ task[f].dst_dir = "/run/failed"
    /\ fs[task[f].target].content = f
    /\ fs[task[f].target].size /= task[g].final_size

\* the sizes of the outcome main takes in this step for f, <<>> when there are
\* none (no outcome, or an outcome without sizes)
ReceivedSizes(f) ==
  IF Finished(f) THEN Outcome(f).sizes ELSE <<>>

\* the line of 0FileChanged.log for f with the mark word
ExpectedChangeLine(f, word) ==
  Basename(f) \o " --> size " \o word \o " ("
    \o ToStr(Outcome(f).sizes[1]) \o " -> " \o ToStr(Outcome(f).sizes[2])
    \o " bytes)"

\* C14: main writes a line for a file to 0FileChanged.log if and only if the
\* outcome it receives carries sizes with size-before different from
\* size-after; it does so once, when it receives the outcome, marks the line
\* "increased" when after > before and "decreased" when after < before, and
\* increments the matching counter in the same step; no other step adds a line
\* or changes these counters, and a file that failed classification (the tool
\* never ran) gets no line.
C14_ChangedLogLine ==
  [][/\ collected \subseteq collected'
     /\ Cardinality(collected' \ collected) <= 1
     /\ collected' = collected =>
          /\ logs'[changed_log] \in {logs[changed_log], <<>>}
          /\ summary'.increased = summary.increased
          /\ summary'.decreased = summary.decreased
     /\ \A f \in collected' \ collected :
          LET s == ReceivedSizes(f)
              old == logs[changed_log]
              new == logs'[changed_log]
          IN  /\ (s = <<>> \/ task[f].tool_runs = 0) =>
                   /\ new = old
                   /\ summary'.increased = summary.increased
                   /\ summary'.decreased = summary.decreased
              /\ (s /= <<>> /\ s[2] = s[1]) =>
                   /\ new = old
                   /\ summary'.increased = summary.increased
                   /\ summary'.decreased = summary.decreased
              /\ (s /= <<>> /\ s[2] > s[1]) =>
                   /\ new = Append(old, ExpectedChangeLine(f, "increased"))
                   /\ summary'.increased = summary.increased + 1
                   /\ summary'.decreased = summary.decreased
              /\ (s /= <<>> /\ s[2] < s[1]) =>
                   /\ new = Append(old, ExpectedChangeLine(f, "decreased"))
                   /\ summary'.decreased = summary.decreased + 1
                   /\ summary'.increased = summary.increased]_vars

\* C14 witness: main has received a matched outcome whose size grew and one
\* of a classification failure; the log holds the one line of the first
C14_Witness ==
  \E f, g \in collected :
    /\ Finished(f) /\ Finished(g)
    /\ Outcome(f).status = "match"
    /\ Outcome(f).sizes[2] > Outcome(f).sizes[1]
    /\ task[g].tool_runs = 0 /\ task[g].removes = 1
    /\ logs[changed_log] = <<ExpectedChangeLine(f, "increased")>>
    /\ summary.increased = 1 /\ summary.decreased = 0

\* the lines of 0NotMatch.log that are entries for f and name its destination
EntriesLocating(f) ==
  {i \in 1..Len(logs[notmatch_log]) :
     /\ Sub(logs[notmatch_log][i], 1, Len(Basename(f)) + 5)
          = Basename(f) \o " --> "
     /\ Contains(logs[notmatch_log][i], " -> moved to " \o task[f].target)}

\* main has received the outcome of a call that moved f to a quarantine
QuarantineRecorded(f) == f \in collected /\ Quarantined(f)

RunComplete ==
  /\ pc = "done"
  /\ printed /= <<>>
  /\ \A f \in Range(all_files) : f \in collected /\ Finished(f) /\ counted[f] = 1

\* no call is queued or running and main has left its loop: no step of the
\* run remains
Halted ==
  /\ pc \in {"done", "aborted"}
  /\ \A f \in DOMAIN task : task[f].pc \in {"done", "raised"}

\* C16: a run terminates with every enumerated file having exactly one outcome
\* collected by main and the summary printed: a run in which no step remains
\* is complete; and the summary is printed only after the outcomes of all
\* dispatched files have been collected.
C16_RunTerminatesComplete ==
  /\ Halted => RunComplete
  /\ printed /= <<>> => \A f \in Range(all_files) : f \in collected

\* the dispatched files whose call returned an outcome
Returned == {f \in Range(all_files) : Finished(f)}

\* what the outcomes of the run add up to, whatever the order of completion
OutcomeCount(counter) ==
  Cardinality({f \in Returned : StatusCounter(Outcome(f)) = counter})

ChangeCount(word) ==
  Cardinality({f \in Returned : SizeChange(Outcome(f)) = word})

OutcomeLines(l) ==
  {StatusLine(Outcome(f))[2] :
     f \in {g \in Returned : /\ StatusLine(Outcome(g)) /= <<>>
                             /\ StatusLine(Outcome(g))[1] = l}}
  \cup (IF l = changed_log
        THEN {ChangeLine(Outcome(f)) :
                f \in {g \in Returned : SizeChange(Outcome(g)) /= ""}}
        ELSE {})

\* C17: the result of a run does not depend on the order in which the calls
\* complete: when the run is over, the counters and the set of lines of each
\* log are what the outcomes of the dispatched files add up to, for the same
\* files and the same tool responses.
C17_OrderIndependent ==
  Halted =>
    /\ summary.match = OutcomeCount("match")
    /\ summary.notmatch = OutcomeCount("notmatch")
    /\ summary.skipped = OutcomeCount("skipped") + Cardinality(Subdirectories)
    /\ summary.increased = ChangeCount("increased")
    /\ summary.decreased = ChangeCount("decreased")
    /\ \A l \in LogFiles : Range(logs[l]) = OutcomeLines(l)

\* the name under test was handled by a fallback matcher
FallbackHandled ==
  probed /= <<>> /\ probed[1].matcher \in {"Fallback1", "Fallback2"}

\* MM and DD of the name under test form a date of the calendar in the year
\* 2000 + YY (of the years 2000..2099 the leap years are the multiples of 4)
ValidMonthDay ==
  LET yy == ToInt(probe, 1, 2)
      mm == ToInt(probe, 3, 4)
      dd == ToInt(probe, 5, 6)
  IN  /\ mm \in 1..12
      /\ dd >= 1
      /\ dd <= (IF mm = 2 THEN (IF yy % 4 = 0 THEN 29 ELSE 28)
                ELSE IF mm \in {4, 6, 9, 11} THEN 30 ELSE 31)

\* C18: a name handled by a fallback matcher whose MM and DD form a valid
\* date parses to midnight of year 2000 + YY, month MM, day DD, for every YY
\* in 00..99; an invalid month or day gives the parse error of that matcher.
C18_FallbackYearFixedOffset ==
  FallbackHandled =>
    IF ValidMonthDay
    THEN /\ probed[1].ok
         /\ probed[1].dt = [year |-> 2000 + ToInt(probe, 1, 2),
                            month |-> ToInt(probe, 3, 4),
                            day |-> ToInt(probe, 5, 6),
                            hour |-> 0, minute |-> 0, second |-> 0,
                            microsecond |-> 0]
    ELSE /\ ~probed[1].ok
         /\ probed[1].reason = probed[1].matcher \o " YYMMDD parse error"

\* C18 witness: a name with YY = 99 was handled by the dash fallback and
\* parsed to 28 February 2099
C18_Witness ==
  /\ FallbackHandled
  /\ probe = "990228-x.jpg"
  /\ probed[1].matcher = "Fallback2"
  /\ probed[1].ok
  /\ probed[1].dt.year = 2099

\* C19: every outcome process_file returns has both sizes or none; it has
\* none only when the path was not a regular file, or when its size could not
\* be read, and then nothing was done to the file; every match or notmatch
\* outcome has both.
C19_SizesBothOrNeither ==
  \A f \in DOMAIN task :
    Finished(f) =>
      LET r == Outcome(f) IN
        /\ Len(r.sizes) \in {0, 2}
        /\ r.sizes = <<>> =>
             /\ r.status \in {"skip", "error_size_before"}
             /\ task[f].tool_runs = 0 /\ task[f].copies = 0
             /\ task[f].removes = 0
             /\ r.status = "skip" => ~isfile(fs, f)
             /\ r.status = "error_size_before" => Untouched(f)
        /\ r.status \in {"match", "notmatch"} =>
             /\ Len(r.sizes) = 2
             /\ r.sizes[1] = task[f].size_before
             /\ r.sizes[2] = task[f].size_after
        /\ r.status \in {"skip", "error_size_before"} => r.sizes = <<>>

\* C19 witness: one call returned without sizes because the size could not be
\* read, another returned a match with both sizes
C19_Witness ==
  \E f, g \in DOMAIN task :
    /\ Finished(f) /\ Finished(g)
    /\ Outcome(f).status = "error_size_before" /\ Outcome(f).sizes = <<>>
    /\ Outcome(g).status = "match" /\ Len(Outcome(g).sizes) = 2

\* C20: nothing is retried: every enumerated file is submitted exactly once,
\* the tool runs at most once per file, a file is copied and removed at most
\* once, and a call that has returned or raised is never taken up again.
C20_NoRetry ==
  [][\A f \in DOMAIN task' :
       /\ f \in Range(all_files')
       /\ task'[f].submits = 1
       /\ task'[f].tool_runs <= 1
       /\ task'[f].copies <= 1
       /\ task'[f].removes <= 1
       /\ (f \in DOMAIN task /\ task[f].pc \in {"done", "raised"}) =>
            task'[f] = task[f]]_vars

\* C20 witness: the tool failed for a file, the file was moved to a
\* quarantine, and the run is over
C20_Witness ==
  /\ pc = "done"
  /\ \E f \in DOMAIN task :
       /\ task[f].tool_runs = 1 /\ task[f].rc /= 0
       /\ task[f].copies = 1 /\ task[f].removes = 1
       /\ task[f].submits = 1

\* the moves whose copy has been made
Landed == {w \in MoverIds : mover[w].pc \in {"remove", "done"}}

\* C21: moves to the manual directory that run side by side in separate
\* workers do not overwrite each other: two moves never land at the same
\* destination, and each moved file is in the manual directory under its
\* destination name with its own content.
C21_ConcurrentManualSafe ==
  /\ \A w \in Landed : \A v \in Landed \ {w} :
       mover[w].target /= mover[v].target
  /\ \A w \in Landed :
       /\ mover[w].target \in InManual(mdir)
       /\ mdir[mover[w].target] = mover[w].content

\* the worker examines, in this step, the dispatched path f and finds that it
\* is not a regular file
ExaminesNonFile(f) ==
  /\ task[f].pc = "queued"
  /\ task'[f].pc /= "queued"
  /\ ~isfile(fs, f)

\* main takes, in this step, the outcome of such a call
CollectsSkip(f) ==
  /\ f \notin collected
  /\ f \in collected'
  /\ Finished(f)
  /\ Outcome(f).status = "skip"

\* C22: a dispatched path that is not a regular file when its worker examines
\* it causes no mutation: the call returns "skip" without running the tool
\* or moving anything, the file system and the three logs stay as they are
\* in the worker's step and in main's, and the only change main makes to the
\* counters is skipped + 1.
C22_NonFileNoMutation ==
  [][\A f \in DOMAIN task :
       /\ ExaminesNonFile(f) =>
            /\ task'[f].pc = "done"
            /\ task'[f].result[1].status = "skip"
            /\ task'[f].result[1].sizes = <<>>
            /\ task'[f].tool_runs = 0 /\ task'[f].copies = 0
            /\ task'[f].removes = 0
            /\ fs' = fs /\ logs' = logs /\ summary' = summary
       /\ CollectsSkip(f) =>
            /\ ~isfile(fs, f)
            /\ task[f].tool_runs = 0 /\ task[f].copies = 0
            /\ task[f].removes = 0
            /\ fs' = fs /\ logs' = logs
            /\ summary' = [summary EXCEPT !.skipped = @ + 1]]_vars

\* C22 witness: the run is over and main has taken the outcome of a path that
\* was not a regular file
C22_Witness ==
  /\ pc = "done"
  /\ \E f \in collected :
       /\ Finished(f)
       /\ Outcome(f).status = "skip"
       /\ f \in DOMAIN fs /\ fs[f].kind = "other"
       /\ summary.skipped >= 1

(***************************************************************************)
(* A run over a single source directory: of the configured folders only    *)
(* the first exists (line 216 passes over a folder that is no directory),  *)
(* and it holds two files, whose names differ as the names of one          *)
(* directory do.                                                           *)
(***************************************************************************)
InitialFsSingle(n1, n2, withDir) ==
  LET a == Join(folder_list[1], n1)
      b == Join(folder_list[1], n2)
      d == Join(folder_list[1], "archive")
      folder == [p \in {folder_list[1]} |-> DirEntry(p)]
      files == Bind(Bind(folder, a, FileEntry(a, 1)), b, FileEntry(b, 2))
  IN  IF withDir THEN Bind(files, d, DirEntry(d)) ELSE files

InitSingle ==
  /\ \E n1 \in PipelineNames, withDir \in BOOLEAN :
       \E n2 \in PipelineNames \ {n1} : fs = InitialFsSingle(n1, n2, withDir)
  /\ logs = [l \in LogFiles |-> <<>>]
  /\ written = [l \in LogFiles |-> <<>>]
  /\ pc = "enumerate"
  /\ all_files = <<>>
  /\ summary = ZeroSummary
  /\ task = <<>>
  /\ collected = {}
  /\ counted = <<>>
  /\ printed = <<>>
  /\ probe = ""
  /\ probed = <<>>
  /\ mdir = <<>>
  /\ mover = <<>>
  /\ mcreated = 0

SpecSingle == InitSingle /\ [][Next]_vars

\* the dispatched files whose copy to a quarantine has been made
Copied == {f \in DOMAIN task : task[f].copies = 1}

\* C23: in a run that scans a single source directory no two files are moved
\* to the same quarantine destination, under any interleaving of the workers,
\* and no file of the run overwrites another: every copy stays at its
\* destination with the content of its own file, and every file still at its
\* source has its own content.
C23_SingleDirectoryNoCollision ==
  /\ \A f \in Copied : \A g \in Copied \ {f} : task[f].target /= task[g].target
  /\ \A f \in Copied :
       /\ task[f].target = Join(task[f].dst_dir, Basename(f))
       /\ AtDestination(fs, f)
       /\ task[f].after = {}
  /\ \A f \in DOMAIN task : isfile(fs, f) => fs[f].content = f

\* C23 witness: both files of the directory were moved to the failed
\* quarantine and both are there
C23_Witness ==
  \E f \in DOMAIN task : \E g \in DOMAIN task \ {f} :
    /\ Quarantined(f) /\ Quarantined(g)
    /\ Dirname(f) = Dirname(g)
    /\ task[f].dst_dir = failed_dir /\ task[g].dst_dir = failed_dir
    /\ AtDestination(fs, f) /\ AtDestination(fs, g)

====
